---- MODULE Spec2Model ----
(***************************************************************************)
(* Model of Challenge_1a/process_pdfs.py: PDFOutlineExtractor and the      *)
(* batch driver process_all_pdfs.                                          *)
(*                                                                         *)
(* Conventions.                                                            *)
(*  - A text is a sequence of Unicode code points (ord of each character). *)
(*  - A font size, a coordinate and a page width are integers counting     *)
(*    hundredths of a point, so 11.0 is 1100 and the 2.0 of the title      *)
(*    window is 200.  Ratios are compared by cross-multiplication, i.e.    *)
(*    with exact arithmetic.                                               *)
(*  - A TextBlock is a record with the fields the code reads:              *)
(*    text, size, bold, x0, y0, x1, page_num.                              *)
(***************************************************************************)
EXTENDS Integers, Sequences, FiniteSets, TLC

VARIABLES
    listing,         \* os.listdir(input_dir): the sequence of directory entries
    idx,             \* position of the for loop of process_all_pdfs in listing
    pc,              \* position inside the current call
    doc,             \* the fitz document in hand (NoDoc when none is open)
    body_font_size,  \* PDFOutlineExtractor.body_font_size
    blocks,          \* all_blocks of process_pdf / the blocks argument of a call
    headings,        \* headings of process_pdf: what _extract_headings returned
    ret,             \* the value the current call returned (NoRet when none)
    written,         \* the output directory: set of [path, data] files
    stdout           \* the lines printed so far

vars == <<listing, idx, pc, doc, body_font_size, blocks, headings, ret, written, stdout>>

NoDoc == [none |-> TRUE]
NoRet == [none |-> TRUE]
None == "None"

(***************************************************************************)
(* Bounds of the model.                                                    *)
(***************************************************************************)
MaxFiles == 2        \* entries in a directory listing
MaxTextLen == 4      \* length of the exhaustively enumerated texts
MaxBlocks == 3       \* blocks in an enumerated block list
MaxPages == 4        \* pages of an enumerated document

(***************************************************************************)
(* Characters and the str / re primitives the code uses.                   *)
(***************************************************************************)
\* str.isspace / the regex class \s, on the characters the model draws
IsSpace(c) == c \in {9, 10, 11, 12, 13, 32}

\* the regex class \d: ASCII digits and the Arabic-Indic digits U+0660..U+0669
IsDigit(c) == c \in 48..57 \/ c \in 1632..1641

\* a letter of the ranges the model draws: ASCII, Latin-1, Greek
IsLetter(c) ==
    \/ c \in 65..90 \/ c \in 97..122
    \/ c \in 192..255 /\ c \notin {215, 247}
    \/ c \in 913..929 \/ c \in 931..937 \/ c \in 945..969

\* the regex class \w: letters, digits and the underscore
IsWord(c) == IsLetter(c) \/ IsDigit(c) \/ c = 95

\* str.lower on one character
LowerChar(c) ==
    IF c \in 65..90 THEN c + 32
    ELSE IF c \in 192..222 /\ c # 215 THEN c + 32
    ELSE IF c \in 913..929 \/ c \in 931..937 THEN c + 32
    ELSE c

\* str.lower
Lower(t) == [i \in 1..Len(t) |-> LowerChar(t[i])]

\* str.strip(): drop leading and trailing whitespace
Strip(t) ==
    LET keep == {i \in 1..Len(t) : ~IsSpace(t[i])}
    IN  IF keep = {} THEN <<>>
        ELSE LET lo == CHOOSE i \in keep : \A j \in keep : i <= j
                 hi == CHOOSE i \in keep : \A j \in keep : j <= i
             IN  SubSeq(t, lo, hi)

\* the index just after the longest run of digits of t that starts at i
\* (i itself when t[i] is no digit): what \d+ consumes before a non-digit
RECURSIVE DigitRunEnd(_, _)
DigitRunEnd(t, i) ==
    IF i <= Len(t) /\ IsDigit(t[i]) THEN DigitRunEnd(t, i + 1) ELSE i

\* the index just after k dot-separated digit groups that start at i,
\* \d+(\.\d+){k-1}, or 0 when t does not start with them at i
RECURSIVE GroupsEnd(_, _, _)
GroupsEnd(t, i, k) ==
    LET e == DigitRunEnd(t, i)
    IN  IF e = i THEN 0
        ELSE IF k = 1 THEN e
        ELSE IF e <= Len(t) /\ t[e] = 46 THEN GroupsEnd(t, e + 1, k - 1)
        ELSE 0

\* re.match(r'^\d+(\.\d+){k-1}\s+', t)
MatchGroupsSpace(t, k) ==
    LET e == GroupsEnd(t, 1, k)
    IN  e > 0 /\ e <= Len(t) /\ IsSpace(t[e])

\* re.match(r'^\d+(\.\d+)*\s', t)
MatchOutlinePrefix(t) == \E k \in 1..Len(t) : MatchGroupsSpace(t, k)

\* re.match(r"^\d+[\).]?\s+", t)
MatchListMarker(t) ==
    LET e == DigitRunEnd(t, 1)
        f == IF e <= Len(t) /\ t[e] \in {41, 46} THEN e + 1 ELSE e
    IN  e > 1 /\ f <= Len(t) /\ IsSpace(t[f])

\* whether the word w stands in t at i and ends at a word boundary: w\b
WordAt(t, i, w) ==
    /\ i + Len(w) - 1 <= Len(t)
    /\ SubSeq(t, i, i + Len(w) - 1) = w
    /\ (i + Len(w) <= Len(t) => ~IsWord(t[i + Len(w)]))

\* how many times ( w\b) matches in a row in t from index i: the greedy ( \1\b)+
RECURSIVE Repeats(_, _, _)
Repeats(t, i, w) ==
    IF i <= Len(t) /\ t[i] = 32 /\ WordAt(t, i + 1, w)
    THEN 1 + Repeats(t, i + 1 + Len(w), w)
    ELSE 0

\* re.sub(r'\b(\w+)( \1\b)+', r'\1', t), scanning t from index i.  \b(\w+)
\* followed by a space can only match a whole run of word characters that
\* starts at a word boundary.
RECURSIVE CollapseFrom(_, _)
CollapseFrom(t, i) ==
    IF i > Len(t) THEN <<>>
    ELSE LET atStart == IsWord(t[i]) /\ (i = 1 \/ ~IsWord(t[i - 1]))
             e == CHOOSE j \in i..(Len(t) + 1) :
                      /\ \A m \in i..(j - 1) : IsWord(t[m])
                      /\ (j <= Len(t) => ~IsWord(t[j]))
             w == SubSeq(t, i, e - 1)
             n == IF atStart THEN Repeats(t, e, w) ELSE 0
         IN  IF n > 0
             THEN w \o CollapseFrom(t, e + n * (Len(w) + 1))
             ELSE <<t[i]>> \o CollapseFrom(t, i + 1)

CollapseRepeatedWords(t) == CollapseFrom(t, 1)

\* re.sub(r'\s{2,}', ' ', t), scanning t from index i: a run of two or more
\* whitespace characters becomes one space, a single one is kept as it is
RECURSIVE SqueezeFrom(_, _)
SqueezeFrom(t, i) ==
    IF i > Len(t) THEN <<>>
    ELSE IF ~IsSpace(t[i]) THEN <<t[i]>> \o SqueezeFrom(t, i + 1)
    ELSE LET e == CHOOSE j \in (i + 1)..(Len(t) + 1) :
                      /\ \A m \in i..(j - 1) : IsSpace(t[m])
                      /\ (j <= Len(t) => ~IsSpace(t[j]))
         IN  (IF e - i >= 2 THEN <<32>> ELSE <<t[i]>>) \o SqueezeFrom(t, e)

CollapseWhitespace(t) == SqueezeFrom(t, 1)

\* any(ord(c) > 255 for c in text)
HasNonLatin1(t) == \E i \in 1..Len(t) : t[i] > 255

(***************************************************************************)
(* PDFOutlineExtractor: constants of __init__.                             *)
(***************************************************************************)
\* font_thresholds, in hundredths: 1.4, 1.2, 1.05
font_thresholds == [H1 |-> 140, H2 |-> 120, H3 |-> 105]

min_block_length == 3

\* the default of _analyze_body_font, 10.0
DefaultBodyFontSize == 1000

(***************************************************************************)
(* _is_heading and _get_level.  body is self.body_font_size.               *)
(***************************************************************************)
IsHeading(block, body) ==
    LET text == Strip(block.text)
    IN  IF Len(text) < min_block_length THEN FALSE
        ELSE IF block.bold \/ block.size * 100 >= body * 105 THEN TRUE
        ELSE IF MatchOutlinePrefix(text) THEN TRUE
        ELSE IF HasNonLatin1(text) THEN TRUE
        ELSE FALSE

\* size_ratio >= threshold, with size_ratio = size / body when body is not 0
\* and 1.0 otherwise
RatioAtLeast(block, body, threshold) ==
    IF body # 0 THEN block.size * 100 >= threshold * body
    ELSE 100 >= threshold

GetLevel_SizeFirst(block, body) ==
    LET text == Strip(block.text)
    IN  IF RatioAtLeast(block, body, font_thresholds.H1) THEN "H1"
        ELSE IF RatioAtLeast(block, body, font_thresholds.H2) THEN "H2"
        ELSE IF MatchGroupsSpace(text, 3) THEN "H3"
        ELSE IF MatchGroupsSpace(text, 2) THEN "H2"
        ELSE IF MatchGroupsSpace(text, 1) THEN "H1"
        ELSE IF RatioAtLeast(block, body, font_thresholds.H3) \/ block.bold THEN "H3"
        ELSE None

GetLevel_NoBold(block, body) ==
    LET text == Strip(block.text)
    IN  IF MatchGroupsSpace(text, 3) THEN "H3"
        ELSE IF MatchGroupsSpace(text, 2) THEN "H2"
        ELSE IF MatchGroupsSpace(text, 1) THEN "H1"
        ELSE IF RatioAtLeast(block, body, font_thresholds.H1) THEN "H1"
        ELSE IF RatioAtLeast(block, body, font_thresholds.H2) THEN "H2"
        ELSE IF RatioAtLeast(block, body, font_thresholds.H3) THEN "H3"
        ELSE None

GetLevel(block, body) ==
    LET text == Strip(block.text)
    IN  IF MatchGroupsSpace(text, 3) THEN "H3"
        ELSE IF MatchGroupsSpace(text, 2) THEN "H2"
        ELSE IF MatchGroupsSpace(text, 1) THEN "H1"
        ELSE IF RatioAtLeast(block, body, font_thresholds.H1) THEN "H1"
        ELSE IF RatioAtLeast(block, body, font_thresholds.H2) THEN "H2"
        ELSE IF RatioAtLeast(block, body, font_thresholds.H3) \/ block.bold THEN "H3"
        ELSE None

(***************************************************************************)
(* Documents.  A document is [pages, width]: pages[p] is the sequence of   *)
(* line-level blocks that _extract_text_blocks builds for page p (fields   *)
(* text, size, bold, x0, y0, x1), width is doc[0].rect.width.              *)
(***************************************************************************)
\* _extract_text_blocks(doc[p - 1]): the page's blocks, page_num = page.number + 1
ExtractTextBlocks(d, p) ==
    [i \in 1..Len(d.pages[p]) |->
        [text |-> d.pages[p][i].text, size |-> d.pages[p][i].size,
         bold |-> d.pages[p][i].bold, x0 |-> d.pages[p][i].x0,
         y0 |-> d.pages[p][i].y0, x1 |-> d.pages[p][i].x1, page_num |-> p]]

\* the blocks of pages p..last, in page order
RECURSIVE BlocksOfPages(_, _, _)
BlocksOfPages(d, p, last) ==
    IF p > last THEN <<>>
    ELSE ExtractTextBlocks(d, p) \o BlocksOfPages(d, p + 1, last)

\* _extract_all_blocks
ExtractAllBlocks(d) == BlocksOfPages(d, 1, Len(d.pages))

\* round(x, 1) on hundredths; a half (x.x5) goes to the even tenth, which is
\* what Python does for the halves a float holds exactly (x.25, x.75)
Round1(s) ==
    LET q == s \div 10
        r == s % 10
    IN  IF r < 5 THEN q * 10
        ELSE IF r > 5 THEN (q + 1) * 10
        ELSE IF q % 2 = 0 THEN q * 10 ELSE (q + 1) * 10

\* the pages _analyze_body_font samples: range(min(3, len(doc)))
SamplePages == 3

\* font_counts after the loops over bs[i..]: acc is [keys, count], keys in
\* insertion order (a dict keeps it)
RECURSIVE CountFonts(_, _, _)
CountFonts(bs, i, acc) ==
    IF i > Len(bs) THEN acc
    ELSE LET b == bs[i]
             k == Round1(b.size)
         IN  IF Len(b.text) > 5 /\ ~b.bold
             THEN IF k \in DOMAIN acc.count
                  THEN CountFonts(bs, i + 1,
                           [acc EXCEPT !.count[k] = @ + 1])
                  ELSE CountFonts(bs, i + 1,
                           [keys |-> Append(acc.keys, k),
                            count |-> [x \in DOMAIN acc.count \cup {k} |->
                                          IF x = k THEN 1 ELSE acc.count[x]]])
             ELSE CountFonts(bs, i + 1, acc)

\* max(...) replaced by a scan that keeps the last of the largest counts
RECURSIVE MaxKey_LastWins(_, _, _)
MaxKey_LastWins(acc, i, best) ==
    IF i > Len(acc.keys) THEN best
    ELSE IF acc.count[acc.keys[i]] >= acc.count[best]
         THEN MaxKey_LastWins(acc, i + 1, acc.keys[i])
         ELSE MaxKey_LastWins(acc, i + 1, best)

\* max(font_counts.items(), key=lambda x: x[1])[0]: the first key, in
\* insertion order, whose count no later key exceeds; best is the key kept so far
RECURSIVE MaxKey(_, _, _)
MaxKey(acc, i, best) ==
    IF i > Len(acc.keys) THEN best
    ELSE IF acc.count[acc.keys[i]] > acc.count[best]
         THEN MaxKey(acc, i + 1, acc.keys[i])
         ELSE MaxKey(acc, i + 1, best)

\* the sample of _analyze_body_font: the blocks of the first min(3, len(doc)) pages
SampleBlocks(d) ==
    BlocksOfPages(d, 1, IF Len(d.pages) < SamplePages THEN Len(d.pages) ELSE SamplePages)

\* _analyze_body_font: the value it assigns to self.body_font_size
AnalyzeBodyFont(d) ==
    LET font_counts == CountFonts(SampleBlocks(d), 1, [keys |-> <<>>, count |-> << >>])
    IN  IF font_counts.keys # <<>>
        THEN MaxKey(font_counts, 2, font_counts.keys[1])
        ELSE DefaultBodyFontSize

(***************************************************************************)
(* _extract_headings.                                                      *)
(***************************************************************************)
\* the first loop: one heading per block that _is_heading accepts and
\* _get_level gives a level, in the order of the blocks
RECURSIVE CollectHeadings(_, _, _)
CollectHeadings(bs, i, body) ==
    IF i > Len(bs) THEN <<>>
    ELSE LET block == bs[i]
             level == GetLevel(block, body)
         IN  (IF IsHeading(block, body) /\ level # None
              THEN <<[level |-> level, text |-> Strip(block.text),
                      page |-> block.page_num, y0 |-> block.y0]>>
              ELSE <<>>) \o CollectHeadings(bs, i + 1, body)

\* (page, y0) of a before (page, y0) of b
KeyBefore(a, b) == a.page < b.page \/ (a.page = b.page /\ a.y0 < b.y0)

\* sorted(headings, key=lambda x: (x["page"], x["y0"])): sorted is stable, so
\* the place of hs[i] is one more than the number of entries with a smaller
\* key or with the same key and an earlier index
SortHeadings(hs) ==
    LET n == Len(hs)
        rank(i) == 1 + Cardinality({j \in 1..n :
                        \/ KeyBefore(hs[j], hs[i])
                        \/ ~KeyBefore(hs[i], hs[j]) /\ j < i})
    IN  [r \in 1..n |-> hs[CHOOSE i \in 1..n : rank(i) = r]]

DedupKey_CaseSensitive(h) == <<h.text, h.page>>

\* the key of the seen set
DedupKey(h) == <<Lower(h.text), h.page>>

\* the second loop over the sorted headings hs[i..], seen holding the keys met
RECURSIVE Dedup(_, _, _)
Dedup(hs, i, seen) ==
    IF i > Len(hs) THEN <<>>
    ELSE LET key == DedupKey(hs[i])
         IN  IF key \in seen THEN Dedup(hs, i + 1, seen)
             ELSE <<hs[i]>> \o Dedup(hs, i + 1, seen \cup {key})

\* the second loop runs over the headings as collected, without sorted()
ExtractHeadings_Unsorted(bs, body) == Dedup(CollectHeadings(bs, 1, body), 1, {})

ExtractHeadings(bs, body) ==
    Dedup(SortHeadings(CollectHeadings(bs, 1, body)), 1, {})

\* the outline of the dict process_pdf returns: y0 is dropped
EmitOutline(hs) ==
    [i \in 1..Len(hs) |->
        [level |-> hs[i].level, text |-> hs[i].text, page |-> hs[i].page]]

(***************************************************************************)
(* _extract_title.                                                         *)
(***************************************************************************)
\* "Document Title"
DocumentTitle == <<68, 111, 99, 117, 109, 101, 110, 116, 32, 84, 105, 116, 108, 101>>

\* {"overview", "table of contents", "revision history"}
Boilerplate == {<<111, 118, 101, 114, 118, 105, 101, 119>>,
                <<116, 97, 98, 108, 101, 32, 111, 102, 32, 99, 111, 110, 116, 101, 110, 116, 115>>,
                <<114, 101, 118, 105, 115, 105, 111, 110, 32, 104, 105, 115, 116, 111, 114, 121>>}

\* b before c in the order of key (-size, y0)
TitleBefore(b, c) == b.size > c.size \/ (b.size = c.size /\ b.y0 < c.y0)

\* sorted(page1_blocks, key=lambda b: (-b.size, b.y0)), stable
SortTitleBlocks(bs) ==
    LET n == Len(bs)
        rank(i) == 1 + Cardinality({j \in 1..n :
                        \/ TitleBefore(bs[j], bs[i])
                        \/ ~TitleBefore(bs[i], bs[j]) /\ j < i})
    IN  [r \in 1..n |-> bs[CHOOSE i \in 1..n : rank(i) = r]]

Abs(x) == IF x < 0 THEN -x ELSE x

TitleAccepts_ListMarkerToo(b, top_size, page_width) ==
    /\ ~(b.y0 > 30000)
    /\ ~(Abs(b.size - top_size) > 200)
    /\ Lower(Strip(b.text)) \notin Boilerplate
    /\ ~(Abs(2 * (b.x0 + b.x1) - 2 * page_width) > page_width)

\* the four continue tests of the loop fail, i.e. b is accepted.
\* abs(center_x - page_width / 2) > page_width * 0.25 is taken times 4.
TitleAccepts(b, top_size, page_width) ==
    /\ ~(b.y0 > 30000)
    /\ ~(Abs(b.size - top_size) > 200)
    /\ ~MatchListMarker(Strip(b.text))
    /\ Lower(Strip(b.text)) \notin Boilerplate
    /\ ~(Abs(2 * (b.x0 + b.x1) - 2 * page_width) > page_width)

\* the two re.sub calls on the accepted text
NormalizeTitle(text) == CollapseWhitespace(CollapseRepeatedWords(Strip(text)))

\* the loop over sorted_blocks[i..]
RECURSIVE TitleScan(_, _, _, _)
TitleScan(sorted_blocks, i, top_size, page_width) ==
    IF i > Len(sorted_blocks) THEN DocumentTitle
    ELSE IF TitleAccepts(sorted_blocks[i], top_size, page_width)
         THEN LET title == NormalizeTitle(sorted_blocks[i].text)
              IN  IF Len(title) > 5 THEN title ELSE DocumentTitle
         ELSE TitleScan(sorted_blocks, i + 1, top_size, page_width)

ExtractTitle(d, bs) ==
    LET page1_blocks == SelectSeq(bs, LAMBDA b : b.page_num = 1)
    IN  IF page1_blocks = <<>> THEN DocumentTitle
        ELSE LET sorted_blocks == SortTitleBlocks(page1_blocks)
             IN  TitleScan(sorted_blocks, 1, sorted_blocks[1].size, d.width)

(***************************************************************************)
(* process_all_pdfs: file names and the output path.                       *)
(***************************************************************************)
\* str.endswith
EndsWith(t, suffix) ==
    Len(t) >= Len(suffix) /\ SubSeq(t, Len(t) - Len(suffix) + 1, Len(t)) = suffix

\* str.replace(old, new) from index i on: every occurrence of old, left to right
RECURSIVE ReplaceFrom(_, _, _, _)
ReplaceFrom(t, i, old, new) ==
    IF i > Len(t) THEN <<>>
    ELSE IF i + Len(old) - 1 <= Len(t) /\ SubSeq(t, i, i + Len(old) - 1) = old
         THEN new \o ReplaceFrom(t, i + Len(old), old, new)
         ELSE <<t[i]>> \o ReplaceFrom(t, i + 1, old, new)

\* ".pdf" and ".json"
DotPdf == <<46, 112, 100, 102>>
DotJson == <<46, 106, 115, 111, 110>>

\* filename.lower().endswith(".pdf")
IsPdfName(filename) == EndsWith(Lower(filename), DotPdf)

\* the file name of output_path: filename.replace(".pdf", ".json")
OutputName(filename) == ReplaceFrom(filename, 1, DotPdf, DotJson)

\* what makes the handling of listing[idx] raise, "none" when nothing does:
\*   "open"     fitz.open raises
\*   "analyze"  a page fails to decode in _analyze_body_font
\*   "extract"  a page fails to decode in _extract_all_blocks
\*   "write"    save_json raises
Faults == {"none", "open", "analyze", "extract", "write"}

CurrentFault == IF idx \in DOMAIN listing THEN listing[idx].fault ELSE "none"

\* the call that raises for each fault, by the position it is made at
RaisesAt(p) ==
    CASE p = "loop" -> "open"
      [] p = "opened" -> "analyze"
      [] p = "analyzed" -> "extract"
      [] p = "returned" -> "write"
      [] OTHER -> "never"

(***************************************************************************)
(* The inputs the specifications draw from.                                *)
(***************************************************************************)
Blk(text, size, bold, x0, y0, x1) ==
    [text |-> text, size |-> size, bold |-> bold, x0 |-> x0, y0 |-> y0, x1 |-> x1]

\* a block with a page number, as _extract_headings and _extract_title get it
OnPage(b, p) ==
    [text |-> b.text, size |-> b.size, bold |-> b.bold, x0 |-> b.x0,
     y0 |-> b.y0, x1 |-> b.x1, page_num |-> p]

\* a text as the span collector leaves it: at least one span of two or more
\* characters, stripped
IsBlockText(t) == Len(t) >= 2 /\ ~IsSpace(t[1]) /\ ~IsSpace(t[Len(t)])

\* every text of lengths lo..hi over an alphabet
AllTexts(alphabet, lo, hi) == UNION {[1..n -> alphabet] : n \in lo..hi}

\* page widths, in hundredths: 600.00
PageWidths == {60000}

\* "Intro"
TxtIntro == <<73, 110, 116, 114, 111>>
\* "INTRO"
TxtIntroUpper == <<73, 78, 84, 82, 79>>
\* "1 Bg"
TxtNumbered == <<49, 32, 66, 103>>
\* "plain"
TxtPlain == <<112, 108, 97, 105, 110>>
\* "plain body text"
TxtBodyLine == <<112, 108, 97, 105, 110, 32, 98, 111, 100, 121, 32, 116, 101, 120, 116>>
\* "Summary"
TxtSummary == <<83, 117, 109, 109, 97, 114, 121>>
\* "Results"
TxtResults == <<82, 101, 115, 117, 108, 116, 115>>
\* "Annual Report"
TxtAnnualReport == <<65, 110, 110, 117, 97, 108, 32, 82, 101, 112, 111, 114, 116>>
\* "Annual Annual Report   Report (three spaces before the last word)"
TxtAnnualExample == <<65, 110, 110, 117, 97, 108, 32, 65, 110, 110, 117, 97, 108, 32, 82, 101, 112, 111, 114, 116, 32, 32, 32, 82, 101, 112, 111, 114, 116>>
\* "1) Introduction"
TxtListMarker == <<49, 41, 32, 73, 110, 116, 114, 111, 100, 117, 99, 116, 105, 111, 110>>
\* "2. Methods"
TxtListMarkerDot == <<50, 46, 32, 77, 101, 116, 104, 111, 100, 115>>
\* "2024 Report"
TxtYearReport == <<50, 48, 50, 52, 32, 82, 101, 112, 111, 114, 116>>
\* "Overview"
TxtOverview == <<79, 118, 101, 114, 118, 105, 101, 119>>
\* "Title"
TxtTitle5 == <<84, 105, 116, 108, 101>>
\* "abc abc"
TxtRepeatShort == <<97, 98, 99, 32, 97, 98, 99>>
\* "Project Plan"
TxtProjectPlan == <<80, 114, 111, 106, 101, 99, 116, 32, 80, 108, 97, 110>>
\* "abcdef"
TxtLong == <<97, 98, 99, 100, 101, 102>>
\* "abcde"
TxtShort == <<97, 98, 99, 100, 101>>
\* "a.pdf"
NameLower == <<97, 46, 112, 100, 102>>
\* "B.PDF"
NameUpper == <<66, 46, 80, 68, 70>>
\* "c.Pdf"
NameMixed == <<99, 46, 80, 100, 102>>
\* "n.txt"
NameText == <<110, 46, 116, 120, 116>>
\* "Annual"
WordAnnual == <<65, 110, 110, 117, 97, 108>>
\* "Report"
WordReport == <<82, 101, 112, 111, 114, 116>>

\* the sequences of m page numbers in 1..n that never decrease
NonDecreasing(m, n) ==
    {pg \in [1..m -> 1..n] : \A i \in 1..(m - 1) : pg[i] <= pg[i + 1]}

\* the pages of a document of n pages whose blocks bs lie on the pages pg
PagesOf(bs, pg, n) ==
    [p \in 1..n |->
        LET on == {i \in DOMAIN bs : pg[i] = p}
        IN  IF on = {} THEN <<>>
            ELSE SubSeq(bs, CHOOSE i \in on : \A j \in on : i <= j,
                            CHOOSE i \in on : \A j \in on : j <= i)]

\* the document of n pages and width w whose blocks bs lie on the pages pg
DocOf(bs, pg, n, w) == [pages |-> PagesOf(bs, pg, n), width |-> w]

\* every list of at most maxBlocks blocks of Cat
ListsFrom(Cat, maxBlocks) == UNION {[1..m -> Cat] : m \in 0..maxBlocks}

\* --- the batch: directory entries and the documents behind them
FileNames == {NameLower, NameUpper, NameMixed, NameText}

Files ==
    {[name |-> n, fault |-> f] : n \in {x \in FileNames : IsPdfName(x)}, f \in Faults}
        \cup {[name |-> n, fault |-> "none"] : n \in {x \in FileNames : ~IsPdfName(x)}}

\* a directory lists each name once
Listings ==
    {l \in ListsFrom(Files, MaxFiles) :
        \A i, j \in DOMAIN l : i # j => l[i].name # l[j].name}

\* body text at 10.0, "Summary" at 12.0
DocA ==
    [pages |-> << <<Blk(TxtAnnualReport, 2400, FALSE, 20000, 5000, 40000),
                    Blk(TxtBodyLine, 1000, FALSE, 5000, 20000, 55000),
                    Blk(TxtSummary, 1200, FALSE, 5000, 30000, 20000),
                    Blk(TxtBodyLine, 1000, FALSE, 5000, 40000, 55000)>> >>,
     width |-> 60000]

\* body text at 12.0, "Summary" at 14.0
DocB ==
    [pages |-> << <<Blk(TxtBodyLine, 1200, FALSE, 5000, 20000, 55000),
                    Blk(TxtBodyLine, 1200, FALSE, 5000, 25000, 55000)>>,
                  <<Blk(TxtSummary, 1400, FALSE, 5000, 10000, 20000),
                    Blk(TxtResults, 1200, TRUE, 5000, 5000, 20000)>> >>,
     width |-> 60000]

EmptyDoc == [pages |-> <<>>, width |-> 60000]

BatchDocs == {DocA, DocB, EmptyDoc}

\* --- documents for the outline: headings that repeat, in any order on a page
OutlinePages == 2

OutlineCat ==
    {Blk(TxtIntro, 1000, TRUE, 5000, 5000, 20000),
     Blk(TxtIntro, 1000, TRUE, 5000, 10000, 20000),
     Blk(TxtIntroUpper, 1400, FALSE, 5000, 5000, 20000),
     Blk(TxtIntroUpper, 1400, FALSE, 5000, 10000, 20000),
     Blk(TxtNumbered, 1000, FALSE, 5000, 7500, 20000),
     Blk(TxtPlain, 1000, FALSE, 5000, 5000, 20000)}

\* blocks for _extract_headings alone, on each page, for block lists with pages
\* in any order: two spellings of one heading at the same y0, one of them lower
\* on the page too, and a block that is no heading
HeadingCat ==
    {Blk(TxtIntro, 1000, TRUE, 5000, 5000, 20000),
     Blk(TxtIntro, 1000, TRUE, 5000, 10000, 20000),
     Blk(TxtIntroUpper, 1400, FALSE, 5000, 5000, 20000),
     Blk(TxtPlain, 1000, FALSE, 5000, 5000, 20000)}

HeadingBlockCat == {OnPage(b, p) : b \in HeadingCat, p \in 1..OutlinePages}

\* --- documents for the body font: 11.0, 9.0 and 10.96 (which rounds to 11.0),
\* a bold block and a block of 5 characters
BodyFontCat ==
    {Blk(TxtLong, 1100, FALSE, 5000, 10000, 55000),
     Blk(TxtLong, 900, FALSE, 5000, 10000, 55000),
     Blk(TxtLong, 1096, FALSE, 5000, 10000, 55000),
     Blk(TxtLong, 900, TRUE, 5000, 10000, 55000),
     Blk(TxtShort, 900, FALSE, 5000, 10000, 55000)}

\* three pages with 12 blocks at 11.0 and 5 blocks at 9.0
ExampleDoc ==
    [pages |-> <<
        <<Blk(TxtLong, 1100, FALSE, 5000, 10000, 55000),
          Blk(TxtLong, 1100, FALSE, 5000, 10000, 55000),
          Blk(TxtLong, 1100, FALSE, 5000, 10000, 55000),
          Blk(TxtLong, 1100, FALSE, 5000, 10000, 55000),
          Blk(TxtLong, 1100, FALSE, 5000, 10000, 55000),
          Blk(TxtLong, 900, FALSE, 5000, 10000, 55000),
          Blk(TxtLong, 900, FALSE, 5000, 10000, 55000)>>,
        <<Blk(TxtLong, 900, FALSE, 5000, 10000, 55000),
          Blk(TxtLong, 900, FALSE, 5000, 10000, 55000),
          Blk(TxtLong, 900, FALSE, 5000, 10000, 55000),
          Blk(TxtLong, 1100, FALSE, 5000, 10000, 55000),
          Blk(TxtLong, 1100, FALSE, 5000, 10000, 55000),
          Blk(TxtLong, 1100, FALSE, 5000, 10000, 55000)>>,
        <<Blk(TxtLong, 1100, FALSE, 5000, 10000, 55000),
          Blk(TxtLong, 1100, FALSE, 5000, 10000, 55000),
          Blk(TxtLong, 1100, FALSE, 5000, 10000, 55000),
          Blk(TxtLong, 1100, FALSE, 5000, 10000, 55000)>>>>,
     width |-> 60000]

\* --- page-1 blocks for the title.  The page is 600 wide: a centre within
\* 150 of 300 is centred.
TitleCat ==
    {Blk(TxtListMarker, 2400, FALSE, 20000, 5000, 40000),    \* the largest: a list marker
     Blk(TxtAnnualReport, 2300, FALSE, 20000, 10000, 40000), \* qualifies
     Blk(TxtProjectPlan, 1400, FALSE, 20000, 12000, 40000),  \* more than 2.0 smaller
     Blk(TxtOverview, 2300, FALSE, 20000, 8000, 40000),      \* boilerplate
     Blk(TxtSummary, 2300, FALSE, 50000, 9000, 58000),       \* off centre
     Blk(TxtResults, 2300, FALSE, 20000, 30001, 40000),      \* y0 > 300
     Blk(TxtTitle5, 2350, FALSE, 20000, 7000, 40000),        \* 5 characters
     Blk(TxtRepeatShort, 2350, FALSE, 20000, 6000, 40000),   \* "abc" once collapsed
     Blk(TxtYearReport, 2300, FALSE, 20000, 4000, 40000),    \* starts with digits
     Blk(TxtAnnualExample, 2300, FALSE, 10000, 11000, 50000)}

\* n spaces
RECURSIVE Spaces(_)
Spaces(n) == IF n = 0 THEN <<>> ELSE <<32>> \o Spaces(n - 1)

\* the longest run of spaces between two words of a drawn title
MaxSpaces == 3

\* titles of two or three words, each pair separated by 1..MaxSpaces spaces
WordTexts ==
    LET W == {WordAnnual, WordReport}
    IN  {a \o Spaces(m) \o b : a \in W, b \in W, m \in 1..MaxSpaces}
        \cup {a \o Spaces(m) \o b \o Spaces(n) \o c :
                 a \in W, b \in W, c \in W, m \in 1..MaxSpaces, n \in 1..MaxSpaces}

\* one-block documents whose block is such a title
WordDocs ==
    {[pages |-> << <<Blk(t, 2400, FALSE, 10000, 5000, 50000)>> >>, width |-> w] :
        t \in WordTexts, w \in PageWidths}

\* --- blocks for the classifier: every short text over '1', '.', ' ', 'a' and
\* the Greek capital omega, and texts with a numbering prefix
ClassifyAlphabet == {49, 46, 32, 97, 937}

\* the groups of the longest numbering prefix drawn
MaxGroups == 4

\* "1", "1.2", "1.2.3", ...: k dot-separated groups
RECURSIVE Numbering(_)
Numbering(k) == IF k = 1 THEN <<49>> ELSE Numbering(k - 1) \o <<46, 48 + k>>

\* a numbering prefix (the first group of one or two digits), what follows it,
\* and a word: "a", "Bg" or, outside Latin-1, the omega
NumberedTexts ==
    {first \o SubSeq(Numbering(k), 2, Len(Numbering(k))) \o sep \o word :
        k \in 1..MaxGroups,
        first \in {<<49>>, <<49, 48>>, <<1633>>},
        sep \in {<<32>>, <<32, 32>>, <<9>>, <<46, 32>>, <<41, 32>>, <<46>>, <<>>},
        word \in {<<97>>, <<66, 103>>, <<937>>}}

ClassifyTexts ==
    {t \in AllTexts(ClassifyAlphabet, 2, MaxTextLen) : IsBlockText(t)}
        \cup NumberedTexts

\* body font sizes 10.0 and 11.0, and the 0 of a fresh extractor
ClassifyBodySizes == {0, 1000, 1100}

\* sizes around the thresholds 1.05, 1.2 and 1.4 of both body sizes
ClassifySizes == {1000, 1049, 1050, 1155, 1200, 1399, 1400, 1540, 2000}

ClassifyBlocks ==
    {OnPage(Blk(t, size, bold, 5000, 5000, 20000), 1) :
        t \in ClassifyTexts, size \in ClassifySizes, bold \in BOOLEAN}

(***************************************************************************)
(* process_pdf, one action per statement.                                  *)
(***************************************************************************)
\* line 23: self._analyze_body_font(doc)
CanAnalyzeBodyFont == pc = "opened" /\ CurrentFault # "analyze"

AnalyzeBodyFontStep_KeepOld ==
    /\ CanAnalyzeBodyFont
    /\ body_font_size' = IF body_font_size # 0 THEN body_font_size
                         ELSE AnalyzeBodyFont(doc)
    /\ pc' = "analyzed"
    /\ UNCHANGED <<listing, idx, doc, blocks, headings, ret, written, stdout>>

AnalyzeBodyFontStep ==
    /\ CanAnalyzeBodyFont
    /\ body_font_size' = AnalyzeBodyFont(doc)
    /\ pc' = "analyzed"
    /\ UNCHANGED <<listing, idx, doc, blocks, headings, ret, written, stdout>>

\* line 24: all_blocks = self._extract_all_blocks(doc)
CanExtractAllBlocks == pc = "analyzed" /\ CurrentFault # "extract"

ExtractAllBlocksStep ==
    /\ CanExtractAllBlocks
    /\ blocks' = ExtractAllBlocks(doc)
    /\ pc' = "extracted"
    /\ UNCHANGED <<listing, idx, doc, body_font_size, headings, ret, written, stdout>>

\* line 25: headings = self._extract_headings(all_blocks)
CanExtractHeadings == pc = "extracted"

ExtractHeadingsStep ==
    /\ CanExtractHeadings
    /\ headings' = ExtractHeadings(blocks, body_font_size)
    /\ pc' = "headed"
    /\ UNCHANGED <<listing, idx, doc, body_font_size, blocks, ret, written, stdout>>

\* lines 26-33: the title and the returned dict
CanReturn == pc = "headed"

ReturnStep ==
    /\ CanReturn
    /\ ret' = [title |-> ExtractTitle(doc, blocks), outline |-> EmitOutline(headings)]
    /\ pc' = "returned"
    /\ UNCHANGED <<listing, idx, doc, body_font_size, blocks, headings, written, stdout>>

(***************************************************************************)
(* process_all_pdfs, one action per step of a loop iteration.              *)
(***************************************************************************)
\* the locals of an iteration are gone when it ends
EndIteration ==
    /\ idx' = idx + 1
    /\ pc' = "loop"
    /\ doc' = NoDoc
    /\ blocks' = <<>>
    /\ headings' = <<>>
    /\ ret' = NoRet

\* line 162: the entry has no .pdf extension
CanSkipEntry == pc = "loop" /\ idx \in DOMAIN listing /\ ~IsPdfName(listing[idx].name)

SkipEntry ==
    /\ CanSkipEntry
    /\ EndIteration
    /\ UNCHANGED <<listing, body_font_size, written, stdout>>

\* line 22: doc = fitz.open(pdf_path); the content of the file is any document
CanOpen ==
    /\ pc = "loop"
    /\ idx \in DOMAIN listing
    /\ IsPdfName(listing[idx].name)
    /\ CurrentFault # "open"

OpenStep ==
    /\ CanOpen
    /\ \E d \in BatchDocs : doc' = d
    /\ pc' = "opened"
    /\ UNCHANGED <<listing, idx, body_font_size, blocks, headings, ret, written, stdout>>

\* lines 167-168: save_json(result, output_path) and the print
CanSave == pc = "returned" /\ idx \in DOMAIN listing /\ CurrentFault # "write"

SaveStep ==
    /\ CanSave
    /\ LET path == OutputName(listing[idx].name)
       IN  written' = {f \in written : f.path # path}
                          \cup {[path |-> path, data |-> ret]}
    /\ stdout' = Append(stdout, [kind |-> "Processed", filename |-> listing[idx].name])
    /\ EndIteration
    /\ UNCHANGED <<listing, body_font_size>>

\* the call made at pc raises
Raises ==
    /\ idx \in DOMAIN listing
    /\ IsPdfName(listing[idx].name)
    /\ CurrentFault = RaisesAt(pc)

\* the exception leaves process_all_pdfs instead of being caught
ExceptStep_Propagates ==
    /\ Raises
    /\ idx' = Len(listing) + 1
    /\ pc' = "loop"
    /\ doc' = NoDoc
    /\ blocks' = <<>>
    /\ headings' = <<>>
    /\ ret' = NoRet
    /\ UNCHANGED <<listing, body_font_size, written, stdout>>

\* lines 169-170: a call of the try block raises, the handler prints
ExceptStep ==
    /\ Raises
    /\ stdout' = Append(stdout, [kind |-> "Error", filename |-> listing[idx].name])
    /\ EndIteration
    /\ UNCHANGED <<listing, body_font_size, written>>

(***************************************************************************)
(* Spec: process_all_pdfs over a directory listing, with one extractor.    *)
(***************************************************************************)
Init ==
    /\ listing \in Listings
    /\ idx = 1
    /\ pc = "loop"
    /\ doc = NoDoc
    /\ body_font_size = 0
    /\ blocks = <<>>
    /\ headings = <<>>
    /\ ret = NoRet
    /\ written = {}
    /\ stdout = <<>>

Next ==
    \/ SkipEntry
    \/ OpenStep
    \/ AnalyzeBodyFontStep
    \/ ExtractAllBlocksStep
    \/ ExtractHeadingsStep
    \/ ReturnStep
    \/ SaveStep
    \/ ExceptStep

Spec == Init /\ [][Next]_vars

\* the line the loop prints for a .pdf entry
ExpectedLine(e) ==
    [kind |-> IF e.fault = "none" THEN "Processed" ELSE "Error", filename |-> e.name]

\* the lines printed once the first n entries of l are handled
RECURSIVE ExpectedStdout(_, _)
ExpectedStdout(l, n) ==
    IF n = 0 THEN <<>>
    ELSE ExpectedStdout(l, n - 1)
             \o (IF IsPdfName(l[n].name) THEN <<ExpectedLine(l[n])>> ELSE <<>>)

\* some step of the loop can be taken: every action is its guard and an
\* assignment to each variable, so it is enabled exactly when its guard holds
CanStep ==
    \/ CanSkipEntry \/ CanOpen \/ CanAnalyzeBodyFont \/ CanExtractAllBlocks
    \/ CanExtractHeadings \/ CanReturn \/ CanSave \/ Raises

\* C3: a failure while opening, processing or writing one file never aborts
\* the batch.  Whatever files fail, the entries handled so far have printed
\* exactly one line per .pdf entry, in listing order, an Error line for each
\* failing file and for no other (so every .pdf entry after a failing one is
\* still attempted); and while entries remain the loop can take a step, so it
\* reaches the end of the listing.
C3_FailureNeverAbortsBatch ==
    /\ idx \in 1..(Len(listing) + 1)
    /\ stdout = ExpectedStdout(listing, idx - 1)
    /\ (idx <= Len(listing) => CanStep)

\* the loop is over, and a .pdf entry listed after a failing file was processed
C3_Witness ==
    /\ idx = Len(listing) + 1
    /\ \E i, j \in DOMAIN listing :
          /\ i < j
          /\ listing[i].fault # "none"
          /\ IsPdfName(listing[j].name)
          /\ \E k \in DOMAIN stdout :
                stdout[k] = [kind |-> "Processed", filename |-> listing[j].name]

\* <name>.json: the file name without its extension, then ".json"
JsonNameOf(filename) == SubSeq(filename, 1, Len(filename) - Len(DotPdf)) \o DotJson

\* C4: every file whose name ends with .pdf in any letter case has its result
\* written under <name>.json, <name> being the file name without its
\* extension; files without such an extension produce no output.
C4_OutputIsNameDotJson ==
    /\ \A i \in 1..(idx - 1) :
          (IsPdfName(listing[i].name) /\ listing[i].fault = "none")
              => \E f \in written : f.path = JsonNameOf(listing[i].name)
    /\ \A f \in written :
          \E i \in 1..(idx - 1) :
              IsPdfName(listing[i].name) /\ f.path = JsonNameOf(listing[i].name)

\* process_pdf(d) on a freshly constructed extractor
FreshResult(d) ==
    [title |-> ExtractTitle(d, ExtractAllBlocks(d)),
     outline |-> EmitOutline(ExtractHeadings(ExtractAllBlocks(d), AnalyzeBodyFont(d)))]

\* C5: no state leaks between documents.  Whatever documents the extractor
\* processed before (some failing part-way), from the analysis of document D
\* until process_pdf returns body_font_size is the value computed from D
\* alone, and process_pdf(D) returns the title and outline it returns on a
\* freshly constructed extractor.
C5_NoLeakBetweenDocuments ==
    /\ pc \in {"analyzed", "extracted", "headed", "returned"}
          => body_font_size = AnalyzeBodyFont(doc)
    /\ pc = "returned" => ret = FreshResult(doc)

\* a document with headings returns after another document, whose body font
\* differs, was analysed by the same extractor and then failed
C5_Witness ==
    /\ pc = "returned"
    /\ idx = 2
    /\ listing[1].fault \in {"extract", "write"}
    /\ doc = DocB
    /\ ret.outline # <<>>

(***************************************************************************)
(* process_pdf on one document, and single calls, for the claims about     *)
(* one document or one block.                                              *)
(***************************************************************************)
NextPdf ==
    \/ AnalyzeBodyFontStep
    \/ ExtractAllBlocksStep
    \/ ExtractHeadingsStep
    \/ ReturnStep

\* fitz.open has returned a document of at most maxPages pages and maxBlocks
\* blocks of Cat
OpenedFrom(Cat, maxBlocks, maxPages) ==
    \E m \in 0..maxBlocks :
        \E n \in (IF m = 0 THEN 0 ELSE 1)..maxPages :
            \E bs \in [1..m -> Cat], pg \in NonDecreasing(m, n), w \in PageWidths :
                doc = DocOf(bs, pg, n, w)

\* process_pdf has opened a document; the extractor holds a body font size
\* of Bodies
InitPdf(Bodies) ==
    /\ listing = <<>>
    /\ idx = 1
    /\ pc = "opened"
    /\ body_font_size \in Bodies
    /\ blocks = <<>>
    /\ headings = <<>>
    /\ ret = NoRet
    /\ written = {}
    /\ stdout = <<>>

InitOutline == OpenedFrom(OutlineCat, MaxBlocks, OutlinePages) /\ InitPdf({0})
SpecOutline == InitOutline /\ [][NextPdf]_vars

InitTitle ==
    /\ OpenedFrom(TitleCat, MaxBlocks, 1) \/ doc \in WordDocs
    /\ InitPdf({0})
SpecTitle == InitTitle /\ [][NextPdf]_vars

\* _analyze_body_font alone, on a fresh extractor and on one that holds the
\* 20.0 of an earlier document
InitBodyFont ==
    /\ OpenedFrom(BodyFontCat, MaxBlocks, MaxPages) \/ doc = ExampleDoc
    /\ InitPdf({0, 2000})
NextBodyFont == AnalyzeBodyFontStep
SpecBodyFont == InitBodyFont /\ [][NextBodyFont]_vars

\* _extract_headings alone, on any list of blocks
InitHeadings ==
    /\ listing = <<>>
    /\ idx = 1
    /\ pc = "extracted"
    /\ doc = NoDoc
    /\ body_font_size = DefaultBodyFontSize
    /\ \E m \in 0..MaxBlocks : blocks \in [1..m -> HeadingBlockCat]
    /\ headings = <<>>
    /\ ret = NoRet
    /\ written = {}
    /\ stdout = <<>>

NextHeadings == ExtractHeadingsStep
SpecHeadings == InitHeadings /\ [][NextHeadings]_vars

\* lines 81-90: the first loop of _extract_headings on a list of one block;
\* ret keeps what _is_heading and _get_level answered
ClassifyStep ==
    /\ pc = "classify"
    /\ LET block == blocks[1]
           is_heading == IsHeading(block, body_font_size)
       IN  ret' = [is_heading |-> is_heading,
                   level |-> IF is_heading THEN GetLevel(block, body_font_size)
                             ELSE None]
    /\ headings' = CollectHeadings(blocks, 1, body_font_size)
    /\ pc' = "classified"
    /\ UNCHANGED <<listing, idx, doc, body_font_size, blocks, written, stdout>>

InitClassify ==
    /\ listing = <<>>
    /\ idx = 1
    /\ pc = "classify"
    /\ doc = NoDoc
    /\ body_font_size \in ClassifyBodySizes
    /\ blocks \in {<<b>> : b \in ClassifyBlocks}
    /\ headings = <<>>
    /\ ret = NoRet
    /\ written = {}
    /\ stdout = <<>>

NextClassify == ClassifyStep
SpecClassify == InitClassify /\ [][NextClassify]_vars

(***************************************************************************)
(* Claims about _is_heading and _get_level (SpecClassify).                 *)
(***************************************************************************)
\* t starts with exactly k dot-separated groups of digits followed by
\* whitespace: up to its first whitespace character it is made of digits and
\* k - 1 dots, no dot first, last or next to another dot
StartsWithGroups(t, k) ==
    \E e \in 2..Len(t) :
        /\ IsSpace(t[e])
        /\ \A i \in 1..(e - 1) : IsDigit(t[i]) \/ t[i] = 46
        /\ IsDigit(t[1]) /\ IsDigit(t[e - 1])
        /\ \A i \in 1..(e - 2) : ~(t[i] = 46 /\ t[i + 1] = 46)
        /\ Cardinality({i \in 1..(e - 1) : t[i] = 46}) = k - 1

LevelOfDepth(k) == <<"H1", "H2", "H3">>[k]

\* C6: numbering-pattern rules take precedence over size-based rules.  A
\* block whose trimmed text starts with exactly k dot-separated digit groups
\* followed by whitespace, k in 1..3, is classified as a heading and given the
\* level H1, H2, H3 for k = 1, 2, 3, whatever its size, its ratio to the body
\* font and its bold flag, and it is appended to the headings.
C6_NumberingTakesPrecedence ==
    pc = "classified" =>
        \A k \in 1..3 :
            StartsWithGroups(Strip(blocks[1].text), k) =>
                /\ ret.is_heading
                /\ ret.level = LevelOfDepth(k)
                /\ Len(headings) = 1
                /\ headings[1].level = LevelOfDepth(k)

\* a non-bold "1.2.3 x" block at a ratio of 1.4 or more is H3, not H1
C6_Witness ==
    /\ pc = "classified"
    /\ body_font_size > 0
    /\ StartsWithGroups(Strip(blocks[1].text), 3)
    /\ ~blocks[1].bold
    /\ blocks[1].size * 10 >= body_font_size * 14
    /\ ret.level = "H3"

\* C10: with body_font_size > 0 and exact arithmetic, every block that
\* _is_heading accepts and that is bold or has size >= 1.05 x body_font_size
\* gets a level and enters the headings; and a block that _is_heading accepts
\* and _get_level gives no level is non-bold, has size < 1.05 x body_font_size,
\* and its text either starts with four or more dot-separated digit groups
\* followed by whitespace, or holds a character with code point > 255 and
\* has no numeric prefix of 1 to 3 groups.
C10_DroppedOnlyWithoutSizeOrBold ==
    (pc = "classified" /\ body_font_size > 0) =>
        LET block == blocks[1]
            t == Strip(block.text)
            large == block.size * 100 >= 105 * body_font_size
        IN  /\ (ret.is_heading /\ (block.bold \/ large))
                  => (ret.level # None /\ Len(headings) = 1)
            /\ (ret.is_heading /\ ret.level = None)
                  => /\ ~block.bold
                     /\ ~large
                     /\ \/ \E k \in 4..Len(t) : StartsWithGroups(t, k)
                        \/ /\ \E i \in 1..Len(t) : t[i] > 255
                           /\ \A k \in 1..3 : ~StartsWithGroups(t, k)

\* a block with a four-group numbering is accepted as a heading and dropped
C10_Witness ==
    /\ pc = "classified"
    /\ body_font_size > 0
    /\ ret.is_heading
    /\ ret.level = None
    /\ headings = <<>>
    /\ StartsWithGroups(Strip(blocks[1].text), 4)

(***************************************************************************)
(* Claims about _extract_headings and the outline.                         *)
(***************************************************************************)
\* the blocks of bs that the first loop turns into headings
HeadingBlocks(bs, body) ==
    {i \in DOMAIN bs : IsHeading(bs[i], body) /\ GetLevel(bs[i], body) # None}

\* (lowercased text, page) of a block and of an outline entry
BlockKey(b) == <<Lower(Strip(b.text)), b.page_num>>
EntryKey(h) == <<Lower(h.text), h.page>>

\* block i comes first, in (page, y0) order, of the heading blocks of its key;
\* of two with the same y0 the one met first comes first
FirstOfKey(bs, body, i) ==
    \A j \in HeadingBlocks(bs, body) :
        BlockKey(bs[j]) = BlockKey(bs[i])
            => (bs[i].y0 < bs[j].y0 \/ (bs[i].y0 = bs[j].y0 /\ i <= j))

\* C1 (SpecHeadings): for any list of blocks, no two entries that
\* _extract_headings returns share (lowercased text, page), and of the heading
\* blocks that share such a pair the entry kept is the one that comes first in
\* (page, y0) sorted order.
C1_OneEntryPerTextAndPage ==
    pc = "headed" =>
        /\ \A m, n \in DOMAIN headings :
              m # n => EntryKey(headings[m]) # EntryKey(headings[n])
        /\ \A i \in HeadingBlocks(blocks, body_font_size) :
              FirstOfKey(blocks, body_font_size, i) =>
                  \E m \in DOMAIN headings :
                      headings[m] = [level |-> GetLevel(blocks[i], body_font_size),
                                     text |-> Strip(blocks[i].text),
                                     page |-> blocks[i].page_num,
                                     y0 |-> blocks[i].y0]
        /\ \A m \in DOMAIN headings :
              \E i \in HeadingBlocks(blocks, body_font_size) :
                  EntryKey(headings[m]) = BlockKey(blocks[i])

\* two heading blocks share a pair, the one higher on the page comes later in
\* the list and differs in text, and it is the one kept
C1_Witness ==
    /\ pc = "headed"
    /\ \E i, j \in HeadingBlocks(blocks, body_font_size) :
          /\ i < j
          /\ BlockKey(blocks[i]) = BlockKey(blocks[j])
          /\ blocks[j].y0 < blocks[i].y0
          /\ blocks[i].text # blocks[j].text
          /\ \E m \in DOMAIN headings : headings[m].text = blocks[j].text
          /\ \A m \in DOMAIN headings : headings[m].text # blocks[i].text

\* (page, y0) of a is less than or equal to (page, y0) of b
KeyLeq(a, b) == a.page < b.page \/ (a.page = b.page /\ a.y0 <= b.y0)

\* C2 (SpecOutline): the outline process_pdf returns is ordered by ascending
\* page and, within a page, by ascending y0 of the source block, also when the
\* blocks of a page arrive out of reading order: its entries are those of the
\* headings without y0, in the same order, each heading has the page, y0 and
\* text of a block of the document, and (page, y0) of each heading is less
\* than or equal to that of the next.
C2_OutlineInReadingOrder ==
    pc = "returned" =>
        /\ Len(ret.outline) = Len(headings)
        /\ \A m \in DOMAIN headings :
              /\ ret.outline[m] = [level |-> headings[m].level,
                                   text |-> headings[m].text,
                                   page |-> headings[m].page]
              /\ \E i \in DOMAIN blocks :
                    /\ blocks[i].page_num = headings[m].page
                    /\ blocks[i].y0 = headings[m].y0
                    /\ Strip(blocks[i].text) = headings[m].text
        /\ \A m \in 1..(Len(headings) - 1) : KeyLeq(headings[m], headings[m + 1])

\* two headings of one page arrive lower one first, and the outline has them
\* in reading order
C2_Witness ==
    /\ pc = "returned"
    /\ \E i, j \in DOMAIN blocks :
          /\ i < j
          /\ blocks[i].page_num = blocks[j].page_num
          /\ blocks[i].y0 > blocks[j].y0
          /\ \E m, n \in DOMAIN ret.outline :
                /\ m < n
                /\ ret.outline[m].text = blocks[j].text
                /\ ret.outline[n].text = blocks[i].text
                /\ ret.outline[m].text # ret.outline[n].text

(***************************************************************************)
(* Claims about _analyze_body_font (SpecBodyFont).                         *)
(***************************************************************************)
\* the places <<page, index>> of the blocks of d that count: on one of the
\* first min(3, page_count) pages, non-bold, text longer than 5 characters
CountedPlaces(d) ==
    {pl \in UNION {{<<p, i>> : i \in DOMAIN d.pages[p]} : p \in DOMAIN d.pages} :
        /\ pl[1] <= 3
        /\ ~d.pages[pl[1]][pl[2]].bold
        /\ Len(d.pages[pl[1]][pl[2]].text) > 5}

\* the size at a place, rounded to one decimal
RoundedSizeAt(d, pl) == Round1(d.pages[pl[1]][pl[2]].size)

\* how many counted blocks have the rounded size sz
CountOfSize(d, sz) == Cardinality({pl \in CountedPlaces(d) : RoundedSizeAt(d, pl) = sz})

\* place a is met before place b, in page-then-block order
PlaceBefore(a, b) == a[1] < b[1] \/ (a[1] = b[1] /\ a[2] < b[2])

\* a counted block of size sz is met before every counted block of size other
MetFirst(d, sz, other) ==
    \E a \in CountedPlaces(d) :
        /\ RoundedSizeAt(d, a) = sz
        /\ \A b \in CountedPlaces(d) :
              RoundedSizeAt(d, b) = other => PlaceBefore(a, b)

\* C9: after _analyze_body_font, body_font_size is the rounded size with the
\* highest count among the non-bold blocks of more than 5 characters of the
\* first min(3, page_count) pages; of several sizes with that count it is the
\* one met first in page-then-block order; it is 10.0 when no block counts.
\* Page 4 and later, bold blocks and short blocks do not count.  12 blocks at
\* 11.0 and 5 at 9.0 give 11.0.
C9_BodyFontIsFirstMostFrequent ==
    pc = "analyzed" =>
        /\ CountedPlaces(doc) = {} => body_font_size = 1000
        /\ CountedPlaces(doc) # {} =>
              /\ CountOfSize(doc, body_font_size) > 0
              /\ \A pl \in CountedPlaces(doc) :
                    LET sz == RoundedSizeAt(doc, pl)
                    IN  /\ CountOfSize(doc, sz) <= CountOfSize(doc, body_font_size)
                        /\ (sz # body_font_size
                              /\ CountOfSize(doc, sz) = CountOfSize(doc, body_font_size))
                             => MetFirst(doc, body_font_size, sz)
        /\ doc = ExampleDoc => body_font_size = 1100

\* 9.0 and 11.0 count once each in the sample, 9.0 is met first and is the
\* result, though page 4 holds a further block at 11.0
C9_Witness ==
    /\ pc = "analyzed"
    /\ body_font_size = 900
    /\ CountOfSize(doc, 900) = 1
    /\ CountOfSize(doc, 1100) = 1
    /\ Len(doc.pages) >= 4
    /\ \E i \in DOMAIN doc.pages[4] :
          /\ ~doc.pages[4][i].bold
          /\ Len(doc.pages[4][i].text) > 5
          /\ Round1(doc.pages[4][i].size) = 1100

(***************************************************************************)
(* Claims about _extract_title (SpecTitle).                                *)
(***************************************************************************)
\* the page-1 blocks of the document in hand
Page1 == {i \in DOMAIN blocks : blocks[i].page_num = 1}

\* the largest size on page 1
TopSize == CHOOSE sz \in {blocks[i].size : i \in Page1} :
               \A i \in Page1 : blocks[i].size <= sz

IsListMarkerBlock(b) == MatchListMarker(Strip(b.text))

\* the largest block of page 1 is a list-marker block
LargestIsListMarker ==
    /\ Page1 # {}
    /\ \A i \in Page1 : blocks[i].size = TopSize => IsListMarkerBlock(blocks[i])

Centred(b) == Abs(2 * (b.x0 + b.x1) - 2 * doc.width) <= doc.width

\* the other blocks the claim as written lets qualify: y0 <= 300, not
\* boilerplate, centred, text longer than 5 characters
OtherQualifying ==
    {i \in Page1 :
        /\ blocks[i].size < TopSize
        /\ blocks[i].y0 <= 30000
        /\ Lower(Strip(blocks[i].text)) \notin Boilerplate
        /\ Centred(blocks[i])
        /\ Len(Strip(blocks[i].text)) > 5}

\* C7 as written: when the largest page-1 block is a list-marker block and
\* some other block has y0 <= 300, is not boilerplate, is centred and has a
\* text longer than 5 characters, the title is the text of the largest such
\* other block, not the fallback.
C7_AsWritten ==
    (pc = "returned" /\ LargestIsListMarker /\ OtherQualifying # {}) =>
        /\ ret.title # DocumentTitle
        /\ \E i \in OtherQualifying :
              /\ \A j \in OtherQualifying : blocks[j].size <= blocks[i].size
              /\ ret.title = Strip(blocks[i].text)

\* the candidates of page 1: y0 <= 300, size within 2.0 of the largest size,
\* no leading list marker, not boilerplate, centred
TitleCandidates ==
    {i \in Page1 :
        /\ blocks[i].y0 <= 30000
        /\ TopSize - blocks[i].size <= 200
        /\ ~IsListMarkerBlock(blocks[i])
        /\ Lower(Strip(blocks[i].text)) \notin Boilerplate
        /\ Centred(blocks[i])}

\* C7 as amended: when the largest page-1 block is a list-marker block, it is
\* not the title.  The title is decided by the first block, in (descending
\* size, ascending y0) order, among those with y0 <= 300, a size within 2.0 of
\* the largest size of the page, no leading numeric list marker, a text that
\* is not boilerplate and a centre within 25% of the page width: it is that
\* block's text after the repeated-word and whitespace collapse when that is
\* longer than 5 characters, and "Document Title" otherwise or when there is
\* no such block.
C7_NextCandidateWithinWindow ==
    (pc = "returned" /\ LargestIsListMarker) =>
        /\ TitleCandidates = {} => ret.title = DocumentTitle
        /\ TitleCandidates # {} =>
              \E i \in TitleCandidates :
                  /\ \A j \in TitleCandidates : ~TitleBefore(blocks[j], blocks[i])
                  /\ ret.title = IF Len(NormalizeTitle(blocks[i].text)) > 5
                                 THEN NormalizeTitle(blocks[i].text)
                                 ELSE DocumentTitle
        /\ \A i \in Page1 : IsListMarkerBlock(blocks[i]) => ret.title # Strip(blocks[i].text)

\* "1) Introduction" is the largest block and "Annual Report", 1.0 smaller,
\* is the title
C7_Witness ==
    /\ pc = "returned"
    /\ LargestIsListMarker
    /\ \E i \in Page1 : blocks[i].text = TxtListMarker /\ blocks[i].size = TopSize
    /\ \E i \in TitleCandidates : blocks[i].size < TopSize
    /\ ret.title = TxtAnnualReport

\* the indexes at which a word of t starts, words being separated by spaces
WordStarts(t) == {a \in DOMAIN t : t[a] # 32 /\ (a = 1 \/ t[a - 1] = 32)}

\* the word of t that starts at a
WordFrom(t, a) ==
    SubSeq(t, a, CHOOSE b \in a..Len(t) :
                     /\ \A m \in a..b : t[m] # 32
                     /\ (b < Len(t) => t[b + 1] = 32))

NoTwoAdjacentEqualWords(t) ==
    \A a, c \in WordStarts(t) :
        (a < c /\ \A m \in WordStarts(t) : ~(a < m /\ m < c))
            => WordFrom(t, a) # WordFrom(t, c)

NoRunOfSpaces(t) == \A i \in 1..(Len(t) - 1) : ~(t[i] = 32 /\ t[i + 1] = 32)

\* C8: title normalization collapses every immediately repeated word to one
\* occurrence and every run of 2 or more whitespace characters to one space:
\* the accepted title "Annual Annual Report   Report" is returned as exactly
\* "Annual Report", and for any accepted title made of words separated by runs
\* of one or more spaces the result has no two adjacent equal words and no run
\* of 2 or more spaces.
C8_TitleNormalized ==
    (/\ pc = "returned"
     /\ Len(blocks) = 1
     /\ TitleAccepts(blocks[1], blocks[1].size, doc.width)
     /\ Len(NormalizeTitle(blocks[1].text)) > 5) =>
        /\ blocks[1].text = TxtAnnualExample => ret.title = TxtAnnualReport
        /\ NoTwoAdjacentEqualWords(ret.title)
        /\ NoRunOfSpaces(ret.title)

====
